---- MODULE Spec2Model ----
(***************************************************************************)
(* Expense Request Assistant (app.py): the dialogue state machine          *)
(* process_request, the field extractors, the request store and the        *)
(* Streamlit script run main() that feeds utterances into the dialogue.    *)
(*                                                                         *)
(* Python values.  A str is a sequence of one-character strings, so that   *)
(* lower(), split(), the substring test and the regular expressions are    *)
(* computed character by character.  A float is Float(h), h the value in   *)
(* hundredths (exact for the at most two fractional digits the amount      *)
(* pattern admits).  None is the value None.  Text the program itself      *)
(* writes (prompts, f-string literals) is a sequence of chunks; the emoji  *)
(* and the typographic apostrophes of the literals are left out.           *)
(***************************************************************************)
EXTENDS Integers, Sequences, FiniteSets, TLC

None == <<"None">>

Float(h) == <<"float", h>>

IsFloat(v) == Len(v) = 2 /\ v[1] = "float"

\* Python truth value of a str, a float or None.
Truthy(v) == v # None /\ v # <<>> /\ v # Float(0)

-----------------------------------------------------------------------------
(* Characters *)

UpperCase == <<"A","B","C","D","E","F","G","H","I","J","K","L","M",
               "N","O","P","Q","R","S","T","U","V","W","X","Y","Z">>

LowerCase == <<"a","b","c","d","e","f","g","h","i","j","k","l","m",
               "n","o","p","q","r","s","t","u","v","w","x","y","z">>

Digits == <<"0","1","2","3","4","5","6","7","8","9">>

Range(f) == {f[i] : i \in DOMAIN f}

DigitChars == {Digits[i] : i \in DOMAIN Digits}

WordChars == Range(UpperCase) \cup Range(LowerCase) \cup Range(Digits) \cup {"_"}

SpaceChars == {" ", "\t", "\n", "\r", "\f"}

IsDigit(c) == c \in DigitChars

ValueOf == [c \in DigitChars |-> (CHOOSE i \in DOMAIN Digits : Digits[i] = c) - 1]

DigitVal(c) == ValueOf[c]

\* \w of the re module
IsWord(c) == c \in WordChars

\* \s of the re module, and the separators of str.split()
IsSpace(c) == c \in SpaceChars

\* [a-zA-Z0-9_\-]
IsNameChar(c) == IsWord(c) \/ c = "-"

\* the lower-case letter of each upper-case one
LowerOf ==
    [c \in Range(UpperCase) |->
        LowerCase[CHOOSE i \in DOMAIN UpperCase : UpperCase[i] = c]]

LowerChar(c) == IF c \in DOMAIN LowerOf THEN LowerOf[c] ELSE c

\* str.lower()
Lower(t) == [i \in DOMAIN t |-> LowerChar(t[i])]

\* t[i..j-1] (1-based, j exclusive)
Slice(t, i, j) == SubSeq(t, i, j - 1)

\* the literal w stands in t at position i
StartsAt(t, i, w) ==
    /\ i + Len(w) - 1 <= Len(t)
    /\ \A k \in 1..Len(w) : t[i + k - 1] = w[k]

\* the same under re.IGNORECASE
StartsAtNoCase(t, i, w) ==
    /\ i + Len(w) - 1 <= Len(t)
    /\ \A k \in 1..Len(w) : LowerChar(t[i + k - 1]) = LowerChar(w[k])

\* `w in t` for strings
Contains(t, w) == \E i \in 1..(Len(t) + 1) : StartsAt(t, i, w)

\* \b at position i: between t[i-1] and t[i], the ends counting as non-word
WordAt(t, i) == i >= 1 /\ i <= Len(t) /\ IsWord(t[i])

Boundary(t, i) == WordAt(t, i - 1) # WordAt(t, i)

\* the least element of a non-empty set of integers
Min(S) == CHOOSE x \in S : \A y \in S : x <= y

\* the end (exclusive) of the longest run of characters of class P from i
RunEnd(t, i, P(_)) ==
    IF i > Len(t) THEN i
    ELSE Min({j \in i..(Len(t) + 1) : j > Len(t) \/ ~P(t[j])})

\* len(t.split()): the number of maximal runs of non-space characters
SplitLen(t) ==
    Cardinality({i \in 1..Len(t) :
                    /\ ~IsSpace(t[i])
                    /\ (i = 1 \/ IsSpace(t[i - 1]))})

\* int(digits)
RECURSIVE DecVal(_)
DecVal(d) == IF d = <<>> THEN 0
             ELSE 10 * DecVal(SubSeq(d, 1, Len(d) - 1)) + DigitVal(d[Len(d)])

\* str(n) for n >= 0
RECURSIVE IntStr(_)
IntStr(n) == IF n < 10 THEN <<Digits[n + 1]>>
             ELSE IntStr(n \div 10) \o <<Digits[(n % 10) + 1]>>

\* str(x) of a float held in hundredths: 300.0, 12.5, 0.25
FloatStr(h) ==
    IntStr(h \div 100) \o <<".">> \o
    (IF h % 10 = 0 THEN IntStr((h % 100) \div 10)
     ELSE IntStr((h % 100) \div 10) \o IntStr(h % 10))

\* what an f-string writes for a value
Str(v) == IF v = None THEN <<"None">>
          ELSE IF IsFloat(v) THEN FloatStr(v[2])
          ELSE v

-----------------------------------------------------------------------------
(* Field extractors *)

PrefixPRJ == <<"P","R","J","-">>

PrefixP == <<"P">>

\* A definition below that takes, as its last parameters, values its caller
\* computes is the body of a LET of its caller: the value is written once
\* and used many times.

DigitsClosed(t, d, e) == IF e > d /\ Boundary(t, e) THEN e ELSE 0

\* the end of \d{1,}\b begun at d, or 0: the closing \b makes the digit run
\* the longest one
DigitsEnd(t, d) == DigitsClosed(t, d, RunEnd(t, d, IsDigit))

\* the first of three ends that is a match
FirstEnd(a, b, c) == IF a # 0 THEN a ELSE IF b # 0 THEN b ELSE c

\* the end of the match of \b(?:PRJ-|P)?\d{1,}\b begun at i, or 0; the
\* alternatives are tried in the pattern's order
NumberMatchEnd(t, i) ==
    IF ~Boundary(t, i) THEN 0
    ELSE FirstEnd(IF StartsAt(t, i, PrefixPRJ) THEN DigitsEnd(t, i + 4) ELSE 0,
                  IF StartsAt(t, i, PrefixP) THEN DigitsEnd(t, i + 1) ELSE 0,
                  DigitsEnd(t, i))

\* the matches <<start, end>> of the project-number pattern in t
NumberMatches(t) ==
    {m \in {<<i, NumberMatchEnd(t, i)>> : i \in 1..Len(t)} : m[2] # 0}

\* re.search returns the leftmost match
Leftmost(M) == CHOOSE m \in M : \A n \in M : m[1] <= n[1]

MatchText(t, m) == Slice(t, m[1], m[2])

\* project_number_match.group() if project_number_match else None
NumberFound(t, M) == IF M = {} THEN None ELSE MatchText(t, Leftmost(M))

WordProject == <<"p","r","o","j","e","c","t">>

\* the name after `project' and the spaces that end at s, if there is one
NameAfter(t, i, s, e) ==
    IF s > i + 7 /\ e > s THEN Slice(t, s, e)
    ELSE Slice(t, i, RunEnd(t, i, IsNameChar))

NameAfterSpaces(t, i, s) == NameAfter(t, i, s, RunEnd(t, s, IsNameChar))

\* group(1) of (?:project\s+)?([a-zA-Z0-9_\-]+) under IGNORECASE, begun at i
NameGroup(t, i) ==
    IF StartsAtNoCase(t, i, WordProject)
    THEN NameAfterSpaces(t, i, RunEnd(t, i + 7, IsSpace))
    ELSE Slice(t, i, RunEnd(t, i, IsNameChar))

\* project_name_match.group(1) if project_name_match else None; the pattern
\* matches from the first name character on
NameFound(t, starts) == IF starts = {} THEN None ELSE NameGroup(t, Min(starts))

extract_project_info(text) ==
    [project_name   |-> NameFound(text, {i \in 1..Len(text) : IsNameChar(text[i])}),
     project_number |-> NumberFound(text, NumberMatches(text))]

Currencies == << <<"U","S","D">>, <<"E","U","R">>, <<"G","B","P">>,
                 <<"d","o","l","l","a","r","s">>, <<"e","u","r","o","s">>,
                 <<"p","o","u","n","d","s">> >>

DefaultCurrency == <<"U","S","D">>

\* The ways \b(\d+(?:\.\d{1,2})?)\s*(USD|EUR|GBP|dollars|euros|pounds)?\b can
\* match from i, as the backtracking search meets them: the digit run is the
\* longest (a shorter one is followed by a digit, where nothing of the rest
\* of the pattern can stand); then the fraction of 2 digits, of 1, or none;
\* then the spaces, most first; then the currencies in order, or none.
\* A way is <<frac, spaces, cur>>, cur = 0 for no currency.

\* (?:\.\d{1,2})? with f digits can stand at d, the end of the digit run
FracOk(t, d, f) ==
    \/ f = 0
    \/ /\ d <= Len(t)
       /\ t[d] = "."
       /\ \A k \in 1..f : d + k <= Len(t) /\ IsDigit(t[d + k])

FracEnd(d, f) == IF f = 0 THEN d ELSE d + 1 + f

\* the same without re.IGNORECASE
CurrencyOkCaseSensitive(t, q, c) ==
    IF c = 0 THEN Boundary(t, q)
    ELSE /\ StartsAt(t, q, Currencies[c])
         /\ Boundary(t, q + Len(Currencies[c]))

\* currency c can stand at q and the closing \b after it
CurrencyOk(t, q, c) ==
    IF c = 0 THEN Boundary(t, q)
    ELSE /\ StartsAtNoCase(t, q, Currencies[c])
         /\ Boundary(t, q + Len(Currencies[c]))

\* the ways with fraction f and k spaces, the currency to stand at q
WaysAtCurrency(t, f, k, q) ==
    {<<f, k, c>> : c \in {c \in 0..Len(Currencies) : CurrencyOk(t, q, c)}}

\* the ways with fraction f, which ends at p, the spaces ending at or
\* before e
WaysAtSpaces(t, f, p, e) ==
    UNION {WaysAtCurrency(t, f, k, p + k) : k \in 0..(e - p)}

WaysAtFrac(t, f, p) == WaysAtSpaces(t, f, p, RunEnd(t, p, IsSpace))

\* the ways with the digit run from i to d
WaysAtDigits(t, i, d) ==
    IF d = i THEN {}
    ELSE UNION {WaysAtFrac(t, f, FracEnd(d, f)) : f \in {f \in 0..2 : FracOk(t, d, f)}}

AmountWays(t, i) ==
    IF ~Boundary(t, i) THEN {}
    ELSE WaysAtDigits(t, i, RunEnd(t, i, IsDigit))

\* w1 is met before w2 by the search
Before(w1, w2) ==
    \/ w1[1] > w2[1]
    \/ w1[1] = w2[1] /\ w1[2] > w2[2]
    \/ /\ w1[1] = w2[1] /\ w1[2] = w2[2]
       /\ w1[3] # 0 /\ (w2[3] = 0 \/ w1[3] < w2[3])

\* the way the search takes
FirstWay(W) == CHOOSE a \in W : \A b \in W : a = b \/ Before(a, b)

\* the matches <<start, ways>> of the amount pattern in t
AmountMatches(t) ==
    {m \in {<<i, AmountWays(t, i)>> : i \in 1..Len(t)} : m[2] # {}}

\* float(match.group(1)) in hundredths: whole is the digit run, frac the
\* digits of the fraction
Hundredths(whole, frac) ==
    100 * DecVal(whole) + (IF Len(frac) = 1 THEN 10 * DecVal(frac)
                           ELSE DecVal(frac))

\* (amount, currency) of the match from i by way w, d the end of its digit
\* run and q the place of its currency
AmountAt(t, w, i, d, q) ==
    [amount   |-> Float(Hundredths(Slice(t, i, d), Slice(t, d + 1, d + 1 + w[1]))),
     currency |-> IF w[3] = 0 THEN DefaultCurrency
                  ELSE Slice(t, q, q + Len(Currencies[w[3]]))]

AmountByWay(t, w, i, d) == AmountAt(t, w, i, d, FracEnd(d, w[1]) + w[2])

AmountOfMatch(t, m) ==
    AmountByWay(t, FirstWay(m[2]), m[1], RunEnd(t, m[1], IsDigit))

AmountFound(t, M) ==
    IF M = {} THEN [amount |-> None, currency |-> None]
    ELSE AmountOfMatch(t, Leftmost(M))

extract_amount(text) == AmountFound(text, AmountMatches(text))

-----------------------------------------------------------------------------
(* Texts *)

\* affirmative_responses, process_request
affirmative_responses ==
    << <<"y","e","s">>, <<"s","u","r","e">>, <<"o","k">>,
       <<"a","f","f","i","r","m","a","t","i","v","e">>,
       <<"y","e","p">>, <<"y","e","a","h">>,
       <<"p","r","o","c","e","e","d">> >>

\* ['no', 'cancel'], process_request
cancel_responses == << <<"n","o">>, <<"c","a","n","c","e","l">> >>

UnnamedProject == <<"U","n","n","a","m","e","d"," ","P","r","o","j","e","c","t">>

Pending == <<"P","e","n","d","i","n","g">>

\* what transcribe_audio_file and transcribe_microphone return instead of a
\* transcription; str(e) is empty for speech that could not be understood
Unavailable ==
    <<"S","p","e","e","c","h"," ","r","e","c","o","g","n","i","t","i","o",
        "n"," ","i","s"," ","n","o","t"," ","a","v","a","i","l","a","b",
        "l","e","."," ","P","l","e","a","s","e"," ","i","n","s","t","a",
        "l","l"," ","t","h","e"," ","r","e","q","u","i","r","e","d"," ",
        "p","a","c","k","a","g","e","s",".">>

ErrorFile == <<"E","r","r","o","r"," ","p","r","o","c","e","s","s","i","n","g"," ",
        "a","u","d","i","o"," ","f","i","l","e",":"," ">>

ErrorMic == <<"E","r","r","o","r",":"," ">>

\* the assistant's fixed messages
MsgWelcome == <<"Welcome! Please provide the project information (name or number).">>

MsgSubmitted == <<"Request submitted successfully!">>

MsgStartNew == <<"You can start a new request now.">>

MsgAskAmount == <<"Please specify the amount.">>

MsgNoProject == <<"I couldn't detect a project number. Please mention it explicitly.">>

MsgAskReason == <<"What's the reason for this expense?">>

MsgNoAmount == <<"Couldn't detect an amount. Please specify it.">>

MsgShortReason == <<"Please provide a more detailed reason for the expense.">>

MsgCancelled == <<"Request cancelled. Let's start over.">>

MsgYesNo == <<"Please confirm with 'yes' or 'no'.">>

\* the utterances users type, say into the microphone or have recorded
Utterances ==
    { <<"y","e","s">>,
      <<"T","o","k","y","o"," ","7">>,
      <<"p","r","o","j","e","c","t"," ","4","0","2","1">>,
      <<"L","a","b","-","1","2",".","5"," ","E","U","R">>,
      <<"0">>,
      <<"F","i","x"," ","t","h","e"," ","r","o","o","f">>,
      <<"C","a","n","c","e","l">> }

\* the uploaded clips, each named by the words recorded on it
Recordings == { <<"F","i","x"," ","t","h","e"," ","r","o","o","f">> }

\* what the users of the two sessions type: a text that reads as a project,
\* as an amount and as a reason, and the confirmation
Repeated ==
    { <<"L","a","b"," ","7"," ","r","o","o","f">>,
      <<"y","e","s">> }

-----------------------------------------------------------------------------
(* State *)

\* the bounds of the exploration: an utterance is taken only while the
\* transcript of its session holds fewer than MaxTurns utterances and the
\* store fewer than MaxStore rows
MaxTurns == 5

MaxStore == 1

\* with several sessions on one database: the utterances a transcript may
\* come to hold and the rows the store may come to hold
MaxSaid == 5

MaxRows == 2

\* the pieces a text handed to extract_amount on its own is put together from
MaxPieces == 5

VARIABLES
    sessions,   \* the browser sessions, each with its own st.session_state
    inputs,     \* the utterances the users of this deployment come up with
    SPEECH_RECOGNITION_AVAILABLE,
    stage,      \* st.session_state['stage'], per session
    request,    \* st.session_state['request'], per session: a dict
    messages,   \* st.session_state.messages, per session
    store,      \* the rows of table requests in expense_requests.db
    audio_file, \* the clip held by the file uploader, per session, or None
    button,     \* the button whose click started the current run, per session
    pc,         \* where the current run of main() stands, per session
    turn,       \* the latest call of process_request: its argument and the
                \* state it was entered in
    amount_text,   \* the argument of a call of extract_amount on its own
    amount_found   \* what that call returned

vars == <<sessions, inputs, SPEECH_RECOGNITION_AVAILABLE, stage, request,
          messages, store, audio_file, button, pc, turn, amount_text,
          amount_found>>

Stages == {"project", "amount", "reason", "confirm"}

EmptyDict == [k \in {} |-> None]

\* d[k] = v
Put(d, k, v) == [x \in DOMAIN d \cup {k} |-> IF x = k THEN v ELSE d[x]]

\* d.get(k)
Get(d, k) == IF k \in DOMAIN d THEN d[k] ELSE None

\* add_message with insert(0, ...) for append
add_messageInFront(msgs, text, sender) ==
    << [text |-> text, sender |-> sender] >> \o msgs

\* add_message: the transcript with one more message
add_message(msgs, text, sender) ==
    Append(msgs, [text |-> text, sender |-> sender])

\* `text in affirmative_responses' instead of a substring test
IsAffirmativeWhole(text) == text \in Range(affirmative_responses)

\* any(response in text for response in affirmative_responses)
IsAffirmative(text) ==
    \E k \in DOMAIN affirmative_responses :
        Contains(text, affirmative_responses[k])

\* The texts that can be handed to process_request, and what the program
\* computes from each of them, tabulated so that it is computed once:
\* text.lower(), and on the lower-cased text the affirmative test, the two
\* extractors and len(text.split()).
Texts ==
    Utterances \cup Recordings \cup Repeated
        \cup {Unavailable, ErrorFile, ErrorMic}

Lowered == [t \in Texts |-> Lower(t)]

LoweredTexts == {Lowered[t] : t \in Texts}

Affirmative == [t \in LoweredTexts |-> IsAffirmative(t)]

ProjectInfo == [t \in LoweredTexts |-> extract_project_info(t)]

Amount == [t \in LoweredTexts |-> extract_amount(t)]

Tokens == [t \in LoweredTexts |-> SplitLen(t)]

\* text.lower() in ['no', 'cancel']
IsCancel(text) == Lower(text) \in Range(cancel_responses)

\* save_request with the reason column left out of the insert
NewRowWithoutReason(rows, req) ==
    [id             |-> Len(rows) + 1,
     project_name   |-> Get(req, "project_name"),
     project_number |-> Get(req, "project_number"),
     amount         |-> Get(req, "amount"),
     currency       |-> Get(req, "currency"),
     reason         |-> None,
     status         |-> Pending]

\* the row save_request inserts for a request; id is AUTOINCREMENT.  The
\* timestamp column takes the wall clock and is not represented.
NewRow(rows, req) ==
    [id             |-> Len(rows) + 1,
     project_name   |-> Get(req, "project_name"),
     project_number |-> Get(req, "project_number"),
     amount         |-> Get(req, "amount"),
     currency       |-> Get(req, "currency"),
     reason         |-> Get(req, "reason"),
     status         |-> Pending]

\* the text display_summary sends
Summary(req) ==
    <<"Summary of your request: - Project Name: ">>
        \o Str(Get(req, "project_name"))
        \o <<" - Project Number: ">> \o Str(Get(req, "project_number"))
        \o <<" - Amount: ">> \o Str(Get(req, "amount"))
        \o <<" ">> \o Str(Get(req, "currency"))
        \o <<" - Reason: ">> \o Str(Get(req, "reason"))
        \o <<" Is this correct? (yes/no)">>

\* A session's dialogue state is S = [stage, request, messages].  Each
\* operator below is one branch of process_request, from the state S the
\* branch is entered in (the user's message already added) to the state it
\* leaves.

\* lines 89-92 without line 94, which empties the transcript
AfterSubmitKeepingTranscript(S) ==
    [stage    |-> "project",
     request  |-> EmptyDict,
     messages |-> add_message(add_message(S.messages, MsgSubmitted, "assistant"),
                              MsgStartNew, "assistant")]

\* the session after save_request returned
AfterSubmit(S) ==
    [stage    |-> "project",
     request  |-> EmptyDict,
     messages |-> <<>>]

\* lines 100-104 with the number stored as the name too
ProjectStoredNumberAsName(S, name, number) ==
    [stage    |-> "amount",
     request  |-> Put(Put(S.request, "project_name", number),
                      "project_number", number),
     messages |-> add_message(
                      add_message(S.messages,
                          <<"Project info: ">> \o name \o <<" (">>
                              \o number \o <<")">>,
                          "assistant"),
                      MsgAskAmount, "assistant")]

\* lines 100-104: the project is taken
ProjectStored(S, name, number) ==
    [stage    |-> "amount",
     request  |-> Put(Put(S.request, "project_name", name),
                      "project_number", number),
     messages |-> add_message(
                      add_message(S.messages,
                          <<"Project info: ">> \o name \o <<" (">>
                              \o number \o <<")">>,
                          "assistant"),
                      MsgAskAmount, "assistant")]

\* lines 99-106 on what extract_project_info returned
ProjectApplied(S, info) ==
    IF Truthy(info.project_number)
    THEN ProjectStored(S,
                       IF Truthy(info.project_name) THEN info.project_name
                       ELSE UnnamedProject,
                       info.project_number)
    ELSE [S EXCEPT !.messages = add_message(@, MsgNoProject, "assistant")]

\* stage 'project' on the lower-cased text
ProjectTurn(S, text) == ProjectApplied(S, ProjectInfo[text])

\* `if amount:`
AmountAccepted(amount) == Truthy(amount)

\* lines 109-116 without line 111, which stores the currency
AmountAppliedWithoutCurrency(S, found) ==
    IF AmountAccepted(found.amount)
    THEN [stage    |-> "reason",
          request  |-> Put(S.request, "amount", found.amount),
          messages |-> add_message(
                           add_message(S.messages,
                               <<"Amount received: ">> \o Str(found.amount)
                                   \o <<" ">> \o found.currency,
                               "assistant"),
                           MsgAskReason, "assistant")]
    ELSE [S EXCEPT !.messages = add_message(@, MsgNoAmount, "assistant")]

\* lines 109-116 on what extract_amount returned
AmountApplied(S, found) ==
    IF AmountAccepted(found.amount)
    THEN [stage    |-> "reason",
          request  |-> Put(Put(S.request, "amount", found.amount),
                           "currency", found.currency),
          messages |-> add_message(
                           add_message(S.messages,
                               <<"Amount received: ">> \o Str(found.amount)
                                   \o <<" ">> \o found.currency,
                               "assistant"),
                           MsgAskReason, "assistant")]
    ELSE [S EXCEPT !.messages = add_message(@, MsgNoAmount, "assistant")]

\* stage 'amount'
AmountTurn(S, text) == AmountApplied(S, Amount[text])

\* `len(text.split()) > 3`
ReasonAcceptedOverThree(text) == Tokens[text] > 3

\* `len(text.split()) >= 3`
ReasonAccepted(text) == Tokens[text] >= 3

\* lines 120-121 once the reason is in the request: display_summary reads
\* the request it is in
ReasonStored(S, req) ==
    [stage    |-> "confirm",
     request  |-> req,
     messages |-> add_message(S.messages, Summary(req), "assistant")]

\* stage 'reason'
ReasonTurn(S, text) ==
    IF ReasonAccepted(text)
    THEN ReasonStored(S, Put(S.request, "reason", text))
    ELSE [S EXCEPT !.messages = add_message(@, MsgShortReason, "assistant")]

\* a cancellation that resets the stage and keeps the request
ConfirmTurnKeepingRequest(S, text) ==
    IF IsCancel(text)
    THEN [stage    |-> "project",
          request  |-> S.request,
          messages |-> add_message(S.messages, MsgCancelled, "assistant")]
    ELSE [S EXCEPT !.messages = add_message(@, MsgYesNo, "assistant")]

\* whatever is not affirmative cancels
ConfirmTurnAlwaysCancels(S, text) ==
    [stage    |-> "project",
     request  |-> EmptyDict,
     messages |-> add_message(S.messages, MsgCancelled, "assistant")]

\* a cancellation that goes back one stage
ConfirmTurnBackToReason(S, text) ==
    IF IsCancel(text)
    THEN [stage    |-> "reason",
          request  |-> S.request,
          messages |-> add_message(S.messages, MsgCancelled, "assistant")]
    ELSE [S EXCEPT !.messages = add_message(@, MsgYesNo, "assistant")]

\* stage 'confirm', the utterance not affirmative
ConfirmTurn(S, text) ==
    IF IsCancel(text)
    THEN [stage    |-> "project",
          request  |-> EmptyDict,
          messages |-> add_message(S.messages, MsgCancelled, "assistant")]
    ELSE [S EXCEPT !.messages = add_message(@, MsgYesNo, "assistant")]

\* the if/elif chain over the stage
StageTurn(S, text) ==
    CASE S.stage = "project" -> ProjectTurn(S, text)
      [] S.stage = "amount"  -> AmountTurn(S, text)
      [] S.stage = "reason"  -> ReasonTurn(S, text)
      [] S.stage = "confirm" -> ConfirmTurn(S, text)
      [] OTHER               -> S

-----------------------------------------------------------------------------
(* process_request *)

\* save_request called before the stage is looked at
SubmitsInAnyStage(s, raw) == Affirmative[Lowered[raw]]

\* save_request is reached: the utterance is affirmative in stage 'confirm'
Submits(s, raw) == Affirmative[Lowered[raw]] /\ stage[s] = "confirm"

\* lines 83-95 with save_request's exception swallowed: the session is reset
\* whether or not the row was written
RespondResettingOnFailure(S, text, dbOk) ==
    IF Affirmative[text]
    THEN IF S.stage = "confirm" THEN AfterSubmit(S) ELSE S
    ELSE StageTurn(S, text)

\* lines 83-130 from S, the session with the user's message added, on the
\* lower-cased text.  The two messages of lines 91-92 are added to the
\* transcript that line 94 then replaces by an empty one.
Respond(S, text, dbOk) ==
    IF Affirmative[text]
    THEN IF S.stage = "confirm" /\ dbOk THEN AfterSubmit(S) ELSE S
    ELSE StageTurn(S, text)

\* save_request with the insert left out when a row of the same content is
\* in the table
save_requestOnce(rows, req) ==
    IF \E i \in DOMAIN rows :
           [rows[i] EXCEPT !.id = 0] = [NewRow(rows, req) EXCEPT !.id = 0]
    THEN rows
    ELSE Append(rows, NewRow(rows, req))

\* save_request: INSERT INTO requests, the table after it
save_request(rows, req) == Append(rows, NewRow(rows, req))

\* the call leaves the session as S1; saved tells what became of save_request
Outcome(s, raw, source, saved, S1) ==
    /\ stage'    = [stage EXCEPT ![s] = S1.stage]
    /\ request'  = [request EXCEPT ![s] = S1.request]
    /\ messages' = [messages EXCEPT ![s] = S1.messages]
    /\ store'    = IF saved = "ok"
                   THEN save_request(store, request[s])
                   ELSE store
    /\ turn'     = [session  |-> s,
                    source   |-> source,
                    text     |-> raw,
                    stage    |-> stage[s],
                    request  |-> request[s],
                    messages |-> messages[s],
                    store    |-> store,
                    saved    |-> saved]

\* process_request(raw) in session s.  source tells which line of main()
\* made the call; dbOk tells whether sqlite3 carries out save_request or
\* raises, in which case the exception leaves process_request right there.
\* 'request' is created empty on the first call, which is the empty dict
\* the model starts with.
process_request(s, raw, source, dbOk) ==
    Outcome(s, raw, source,
            IF ~Submits(s, raw) THEN "none" ELSE IF dbOk THEN "ok" ELSE "failed",
            Respond([stage    |-> stage[s],
                     request  |-> request[s],
                     messages |-> add_message(messages[s], raw, "user")],
                    Lowered[raw], dbOk))

\* the call ends in an exception, which ends the run of main() as well
Raises(s, raw, dbOk) == Submits(s, raw) /\ ~dbOk

-----------------------------------------------------------------------------
(* main: one run of the script per interaction.  A run goes through the     *)
(* Submit button, the file uploader and the microphone button in this       *)
(* order; each call of process_request is one step.                         *)

\* transcribe_audio_file: the values it can return for a clip
transcribe_audio_file(clip) ==
    IF ~SPEECH_RECOGNITION_AVAILABLE THEN {Unavailable}
    ELSE {clip, ErrorFile}

\* transcribe_microphone: the values it can return
transcribe_microphone ==
    IF ~SPEECH_RECOGNITION_AVAILABLE THEN {Unavailable}
    ELSE Recordings \cup {ErrorMic}

\* the number of utterances in a transcript
UserTurns(msgs) == Cardinality({i \in DOMAIN msgs : msgs[i].sender = "user"})

\* the exploration goes on in session s
Open(s) ==
    /\ UserTurns(messages[s]) < MaxTurns
    /\ Len(store) < MaxStore

Idle(s) == pc[s] = "idle" /\ Open(s)

Fixed ==
    UNCHANGED <<sessions, inputs, SPEECH_RECOGNITION_AVAILABLE, amount_text,
                amount_found>>

Dialogue == <<stage, request, messages, store, turn>>

\* where the run goes after the uploader: to the microphone button if that
\* is what was clicked, else to its end
AfterAudio(s) == IF button[s] = "Mic" THEN "mic" ELSE "idle"

\* the button of the run after the uploader: a click holds for its run only
ButtonAfterAudio(s) == IF button[s] = "Mic" THEN "Mic" ELSE ""

\* the Submit button is clicked with text in the input box (lines 198-200)
ClickSubmit(s) ==
    \E text \in inputs, dbOk \in BOOLEAN :
        /\ Idle(s)
        /\ dbOk \/ Submits(s, text)
        /\ process_request(s, text, "typed", dbOk)
        /\ pc' = [pc EXCEPT ![s] = IF Raises(s, text, dbOk) THEN "idle" ELSE "audio"]
        /\ button' = [button EXCEPT ![s] = IF Raises(s, text, dbOk) THEN ""
                                           ELSE "Submit"]
        /\ UNCHANGED audio_file
        /\ Fixed

\* a clip is put into the uploader
Upload(s) ==
    \E clip \in Recordings :
        /\ Idle(s)
        /\ audio_file[s] # clip
        /\ audio_file' = [audio_file EXCEPT ![s] = clip]
        /\ pc' = [pc EXCEPT ![s] = "audio"]
        /\ UNCHANGED <<button, Dialogue>>
        /\ Fixed

\* the clip is taken out of the uploader
Remove(s) ==
    /\ Idle(s)
    /\ audio_file[s] # None
    /\ audio_file' = [audio_file EXCEPT ![s] = None]
    /\ pc' = [pc EXCEPT ![s] = "audio"]
    /\ UNCHANGED <<button, Dialogue>>
    /\ Fixed

\* the input box is edited and left: a run that no button started
Rerun(s) ==
    /\ Idle(s)
    /\ pc' = [pc EXCEPT ![s] = "audio"]
    /\ UNCHANGED <<audio_file, button, Dialogue>>
    /\ Fixed

\* the microphone button, offered only with speech recognition, is clicked
ClickMic(s) ==
    /\ Idle(s)
    /\ SPEECH_RECOGNITION_AVAILABLE
    /\ button' = [button EXCEPT ![s] = "Mic"]
    /\ pc' = [pc EXCEPT ![s] = "audio"]
    /\ UNCHANGED <<audio_file, Dialogue>>
    /\ Fixed

\* lines 202-205 with a clip in the uploader
AudioFile(s) ==
    \E text \in transcribe_audio_file(audio_file[s]), dbOk \in BOOLEAN :
        /\ pc[s] = "audio"
        /\ audio_file[s] # None
        /\ dbOk \/ Submits(s, text)
        /\ process_request(s, text, "file", dbOk)
        /\ pc' = [pc EXCEPT ![s] = IF Raises(s, text, dbOk) THEN "idle"
                                   ELSE AfterAudio(s)]
        /\ button' = [button EXCEPT ![s] = IF Raises(s, text, dbOk) THEN ""
                                           ELSE ButtonAfterAudio(s)]
        /\ UNCHANGED audio_file
        /\ Fixed

\* lines 202-203 with the uploader empty
AudioNone(s) ==
    /\ pc[s] = "audio"
    /\ audio_file[s] = None
    /\ pc' = [pc EXCEPT ![s] = AfterAudio(s)]
    /\ button' = [button EXCEPT ![s] = ButtonAfterAudio(s)]
    /\ UNCHANGED <<audio_file, Dialogue>>
    /\ Fixed

\* lines 207-210, the microphone button clicked
Microphone(s) ==
    \E text \in transcribe_microphone, dbOk \in BOOLEAN :
        /\ pc[s] = "mic"
        /\ dbOk \/ Submits(s, text)
        /\ IF Truthy(text)
           THEN process_request(s, text, "mic", dbOk)
           ELSE UNCHANGED Dialogue
        /\ pc' = [pc EXCEPT ![s] = "idle"]
        /\ button' = [button EXCEPT ![s] = ""]
        /\ UNCHANGED audio_file
        /\ Fixed

\* extract_amount was not called on its own
NotCalled == [amount |-> <<"not called">>, currency |-> <<"not called">>]

NoTurn ==
    [session |-> "", source |-> "", text |-> <<>>, stage |-> "project",
     request |-> EmptyDict, messages |-> <<>>, store |-> <<>>, saved |-> "none"]

\* The state once main() has run for the first time in each session (lines
\* 191-194) on an empty database.
InitWith(ss, us) ==
    /\ sessions = ss
    /\ inputs = us
    /\ SPEECH_RECOGNITION_AVAILABLE \in BOOLEAN
    /\ stage = [s \in ss |-> "project"]
    /\ request = [s \in ss |-> EmptyDict]
    /\ messages = [s \in ss |-> add_message(<<>>, MsgWelcome, "assistant")]
    /\ store = <<>>
    /\ audio_file = [s \in ss |-> None]
    /\ button = [s \in ss |-> ""]
    /\ pc = [s \in ss |-> "idle"]
    /\ turn = NoTurn
    /\ amount_text = <<>>
    /\ amount_found = NotCalled

\* One utterance reaches process_request, by whichever way.
Utter(s) ==
    \E text \in inputs, dbOk \in BOOLEAN :
        /\ Open(s)
        /\ dbOk \/ Submits(s, text)
        /\ process_request(s, text, "typed", dbOk)
        /\ UNCHANGED <<audio_file, button, pc>>
        /\ Fixed

Init == InitWith({"s1"}, Utterances)

Next == \E s \in sessions : Utter(s)

Spec == Init /\ [][Next]_vars

\* what is typed where audio is at hand as well: the four utterances of a
\* request that goes through
Typed ==
    { <<"y","e","s">>,
      <<"p","r","o","j","e","c","t"," ","4","0","2","1">>,
      <<"L","a","b","-","1","2",".","5"," ","E","U","R">>,
      <<"F","i","x"," ","t","h","e"," ","r","o","o","f">> }

InitUI == InitWith({"s1"}, Typed)

NextUI ==
    \E s \in sessions :
        \/ ClickSubmit(s)
        \/ Upload(s)
        \/ Remove(s)
        \/ Rerun(s)
        \/ ClickMic(s)
        \/ AudioFile(s)
        \/ AudioNone(s)
        \/ Microphone(s)

SpecUI == InitUI /\ [][NextUI]_vars

\* Two browser sessions on the one database.  Each has its own
\* st.session_state; the table is what they share, and an insert with its
\* commit is one step of sqlite3.
Say(s) ==
    \E text \in inputs, dbOk \in BOOLEAN :
        /\ UserTurns(messages[s]) < MaxSaid
        /\ Len(store) < MaxRows
        /\ dbOk \/ Submits(s, text)
        /\ process_request(s, text, "typed", dbOk)
        /\ UNCHANGED <<audio_file, button, pc>>
        /\ Fixed

InitShared == InitWith({"s1", "s2"}, Repeated)

NextShared == \E s \in sessions : Say(s)

SpecShared == InitShared /\ [][NextShared]_vars

\* One session whose utterances are typed or come from uploaded clips, with
\* cancellations and one submission after the other.

\* lines 203-205: the transcription of an uploaded clip reaches
\* process_request
Heard(s) ==
    \E clip \in Recordings, dbOk \in BOOLEAN :
        \E text \in transcribe_audio_file(clip) :
            /\ UserTurns(messages[s]) < MaxSaid
            /\ Len(store) < MaxRows
            /\ dbOk \/ Submits(s, text)
            /\ process_request(s, text, "file", dbOk)
            /\ UNCHANGED <<audio_file, button, pc>>
            /\ Fixed

InitMixed == InitWith({"s1"}, Repeated \cup {<<"C","a","n","c","e","l">>})

NextMixed == \E s \in sessions : Say(s) \/ Heard(s)

SpecMixed == InitMixed /\ [][NextMixed]_vars

\* extract_amount on its own, on any text: the texts are put together from
\* a digit, the point, the space, two currency words and a letter
Pieces ==
    { <<"7">>, <<".">>, <<" ">>, <<"e","u","r">>,
      <<"P","o","u","n","d","s">>, <<"x">> }

RECURSIVE Join(_)
Join(ps) == IF ps = <<>> THEN <<>> ELSE Head(ps) \o Join(Tail(ps))

AmountTexts ==
    {Join(ps) : ps \in UNION {[1..n -> Pieces] : n \in 0..MaxPieces}}

InitAmount ==
    /\ sessions = {}
    /\ inputs = {}
    /\ SPEECH_RECOGNITION_AVAILABLE = FALSE
    /\ stage = <<>>
    /\ request = <<>>
    /\ messages = <<>>
    /\ store = <<>>
    /\ audio_file = <<>>
    /\ button = <<>>
    /\ pc = <<>>
    /\ turn = NoTurn
    /\ amount_text \in AmountTexts
    /\ amount_found = NotCalled

\* the call extract_amount(amount_text)
ExtractAmount ==
    /\ amount_found = NotCalled
    /\ amount_found' = extract_amount(amount_text)
    /\ UNCHANGED <<sessions, inputs, SPEECH_RECOGNITION_AVAILABLE, stage,
                   request, messages, store, audio_file, button, pc, turn,
                   amount_text>>

NextAmount == ExtractAmount

SpecAmount == InitAmount /\ [][NextAmount]_vars

-----------------------------------------------------------------------------
(* The claims.  They read the latest call of process_request from turn     *)
(* (its argument and the state it was entered in) and its effect from the  *)
(* present state.                                                          *)

Called == turn.session # ""

\* the messages the latest call added to the transcript of its session
Added == SubSeq(messages[turn.session], Len(turn.messages) + 1,
                Len(messages[turn.session]))

UserMessage == [text |-> turn.text, sender |-> "user"]

Assistant(text) == [text |-> text, sender |-> "assistant"]

\* the claims' own reading of `contains an affirmative token as a substring'
AffirmativeTokens ==
    { <<"y","e","s">>, <<"s","u","r","e">>, <<"o","k">>,
      <<"a","f","f","i","r","m","a","t","i","v","e">>, <<"y","e","p">>,
      <<"y","e","a","h">>, <<"p","r","o","c","e","e","d">> }

SaysYes == [t \in Texts |-> \E w \in AffirmativeTokens : Contains(Lower(t), w)]

\* the claims' own reading of `exactly "no" or "cancel"'
SaysNo == [t \in Texts |-> Lower(t) \in {<<"n","o">>, <<"c","a","n","c","e","l">>}]

\* the latest call was a confirmation turn whose store write succeeded
Submitted ==
    /\ Called
    /\ turn.stage = "confirm"
    /\ SaysYes[turn.text]
    /\ turn.saved = "ok"

\* C1: a turn in stage confirm whose lower-cased utterance contains an
\* affirmative token, the store write succeeding, appends exactly one record
\* to the store; its project_name, project_number, amount, currency and
\* reason are those of the request at the start of the turn and its status
\* is "Pending".
C1_SubmitAppendsOneRecord ==
    Submitted =>
        /\ Len(store) = Len(turn.store) + 1
        /\ SubSeq(store, 1, Len(turn.store)) = turn.store
        /\ LET row == store[Len(store)]
           IN  /\ row.project_name = Get(turn.request, "project_name")
               /\ row.project_number = Get(turn.request, "project_number")
               /\ row.amount = Get(turn.request, "amount")
               /\ row.currency = Get(turn.request, "currency")
               /\ row.reason = Get(turn.request, "reason")
               /\ row.status = <<"P","e","n","d","i","n","g">>

C1_Witness ==
    /\ Submitted
    /\ Len(store) = 1
    /\ store[1].amount = Float(402100)

\* C2: after a successful submission turn the session is reset: the stage is
\* project, the request is empty and the transcript holds no message from
\* before the submission.
C2_SubmitResetsSession ==
    Submitted =>
        /\ stage[turn.session] = "project"
        /\ request[turn.session] = EmptyDict
        /\ \A i \in DOMAIN messages[turn.session] :
               messages[turn.session][i] \notin Range(turn.messages)

C2_Witness ==
    /\ Submitted
    /\ Len(turn.messages) >= 9
    /\ stage[turn.session] = "project"

\* C3: in the stages project, amount and reason an utterance whose
\* lower-cased text contains an affirmative token is absorbed: stage, request
\* and store are unchanged, no extractor result is applied and the user's
\* message is the only one added to the transcript.
C3_AffirmativeAbsorbed ==
    (Called /\ turn.stage # "confirm" /\ SaysYes[turn.text]) =>
        /\ stage[turn.session] = turn.stage
        /\ request[turn.session] = turn.request
        /\ store = turn.store
        /\ messages[turn.session] = Append(turn.messages, UserMessage)

\* absorbed in stage amount although the amount extractor finds an amount
C3_Witness ==
    /\ Called
    /\ turn.stage = "amount"
    /\ SaysYes[turn.text]
    /\ Amount[Lowered[turn.text]].amount = Float(700)
    /\ stage[turn.session] = "amount"

\* C4: in stage project, on a non-affirmative utterance: if the project
\* extractor finds a project number, the request gets that project_number
\* and the extracted project_name ("Unnamed Project" when there is none),
\* the stage becomes amount and exactly two assistant messages are added, the
\* project confirmation and then the amount prompt; if it finds none, one
\* re-prompt is added and stage and request are unchanged.
C4_ProjectStage ==
    (Called /\ turn.stage = "project" /\ ~SaysYes[turn.text]) =>
        LET info == ProjectInfo[Lowered[turn.text]]
            name == IF info.project_name = None
                    THEN <<"U","n","n","a","m","e","d"," ",
                           "P","r","o","j","e","c","t">>
                    ELSE info.project_name
        IN  IF info.project_number # None
            THEN /\ request[turn.session] =
                        [project_name |-> name,
                         project_number |-> info.project_number]
                 /\ stage[turn.session] = "amount"
                 /\ Added = << UserMessage,
                               Assistant(<<"Project info: ">> \o name \o <<" (">>
                                         \o info.project_number \o <<")">>),
                               Assistant(MsgAskAmount) >>
            ELSE /\ request[turn.session] = turn.request
                 /\ stage[turn.session] = "project"
                 /\ Added = << UserMessage, Assistant(MsgNoProject) >>

C4_Witness ==
    /\ Called
    /\ turn.stage = "project"
    /\ stage[turn.session] = "amount"
    /\ request[turn.session].project_number = <<"4","0","2","1">>

\* C5: in stage amount, on a non-affirmative utterance on which the amount
\* extractor returns an amount (anything but None), the request's amount and
\* currency are set to the extractor's result, the stage becomes reason and a
\* confirmation and then the reason prompt are added; only when the extractor
\* returns no amount does the turn re-prompt and leave the stage unchanged.
C5_AmountStage ==
    (Called /\ turn.stage = "amount" /\ ~SaysYes[turn.text]) =>
        LET found == Amount[Lowered[turn.text]]
        IN  IF found.amount # None
            THEN /\ request[turn.session] =
                        [project_name   |-> turn.request.project_name,
                         project_number |-> turn.request.project_number,
                         amount         |-> found.amount,
                         currency       |-> found.currency]
                 /\ stage[turn.session] = "reason"
                 /\ Added = << UserMessage,
                               Assistant(<<"Amount received: ">>
                                         \o Str(found.amount) \o <<" ">>
                                         \o found.currency),
                               Assistant(MsgAskReason) >>
            ELSE /\ request[turn.session] = turn.request
                 /\ stage[turn.session] = "amount"
                 /\ Added = << UserMessage, Assistant(MsgNoAmount) >>

\* C6: in stage reason, on a non-affirmative utterance: with at least 3
\* whitespace-separated tokens the reason is stored, the stage becomes
\* confirm and in the same turn exactly one summary message is added, which
\* contains the request's project name, project number, amount, currency and
\* reason; with fewer than 3 tokens stage and request are unchanged and a
\* re-prompt is added.
C6_ReasonStage ==
    (Called /\ turn.stage = "reason" /\ ~SaysYes[turn.text]) =>
        LET req == request[turn.session]
        IN  IF Tokens[Lowered[turn.text]] >= 3
            THEN /\ DOMAIN req = DOMAIN turn.request \cup {"reason"}
                 /\ \A k \in DOMAIN turn.request : req[k] = turn.request[k]
                 /\ req.reason # None
                 /\ Lower(req.reason) = Lowered[turn.text]
                 /\ stage[turn.session] = "confirm"
                 /\ Len(Added) = 2
                 /\ Added[1] = UserMessage
                 /\ Added[2].sender = "assistant"
                 /\ \A k \in {"project_name", "project_number", "amount",
                              "currency", "reason"} :
                        Contains(Added[2].text, Str(req[k]))
            ELSE /\ req = turn.request
                 /\ stage[turn.session] = "reason"
                 /\ Added = << UserMessage, Assistant(MsgShortReason) >>

C6_Witness ==
    /\ Called
    /\ turn.stage = "reason"
    /\ stage[turn.session] = "confirm"
    /\ request[turn.session].currency = <<"e","u","r">>
    /\ Len(Added) = 2

\* C7: in stage confirm an utterance whose lower-cased text is exactly "no"
\* or "cancel" clears the request, returns the stage to project, adds a
\* cancellation message and leaves the store as it was.
C7_CancelResets ==
    (Called /\ turn.stage = "confirm" /\ SaysNo[turn.text]) =>
        /\ request[turn.session] = EmptyDict
        /\ stage[turn.session] = "project"
        /\ Added = << UserMessage, Assistant(MsgCancelled) >>
        /\ store = turn.store

C7_Witness ==
    /\ Called
    /\ turn.stage = "confirm"
    /\ turn.text = <<"C","a","n","c","e","l">>
    /\ DOMAIN turn.request # {}
    /\ stage[turn.session] = "project"

\* C8: in stage confirm an utterance that contains no affirmative token and
\* is not exactly "no" or "cancel" adds a yes/no re-prompt and leaves the
\* stage, the request and the store unchanged.
C8_ConfirmReprompts ==
    (Called /\ turn.stage = "confirm" /\ ~SaysYes[turn.text]
        /\ ~SaysNo[turn.text]) =>
        /\ Added = << UserMessage, Assistant(MsgYesNo) >>
        /\ stage[turn.session] = "confirm"
        /\ request[turn.session] = turn.request
        /\ store = turn.store

C8_Witness ==
    /\ Called
    /\ turn.stage = "confirm"
    /\ turn.text = <<"0">>
    /\ stage[turn.session] = "confirm"

\* the request fields that belong to each stage
FieldsAt(st) ==
    CASE st = "project" -> {}
      [] st = "amount"  -> {"project_name", "project_number"}
      [] st = "reason"  -> {"project_name", "project_number", "amount",
                            "currency"}
      [] st = "confirm" -> {"project_name", "project_number", "amount",
                            "currency", "reason"}

C9_Shape ==
    \A s \in sessions :
        /\ DOMAIN request[s] = FieldsAt(stage[s])
        /\ \A k \in DOMAIN request[s] : request[s][k] # None

C9_Keep ==
    \A s \in sessions :
        \/ request'[s] = EmptyDict
        \/ \A k \in DOMAIN request[s] :
               k \in DOMAIN request'[s] /\ request'[s][k] = request[s][k]

\* C9: in every reachable state the fields of the request that are set are
\* those of its stage (none in project, the project fields in amount, these
\* and amount and currency in reason, all in confirm), and a field once set
\* keeps its value until the whole request is cleared.
C9_RequestFollowsStage == []C9_Shape /\ [][C9_Keep]_vars

C9_Witness ==
    \E s \in sessions :
        /\ stage[s] = "confirm"
        /\ DOMAIN request[s] = FieldsAt("confirm")
        /\ request[s].amount = Float(1250)

StageSteps ==
    { <<"project", "amount">>, <<"amount", "reason">>,
      <<"reason", "confirm">>, <<"confirm", "project">> }

C10_Step ==
    \A s \in sessions :
        stage'[s] # stage[s] =>
            /\ <<stage[s], stage'[s]>> \in StageSteps
            /\ stage'[s] = "project" => request'[s] = EmptyDict

\* C10: the only stage changes are project -> amount, amount -> reason,
\* reason -> confirm and confirm -> project, the last one emptying the
\* request; the stage never goes back while the request keeps fields and
\* never skips a stage.
C10_StageOrder == [][C10_Step]_vars

\* the dialogue came back from confirm to project by a cancellation
C10_Witness ==
    /\ Called
    /\ turn.stage = "confirm"
    /\ turn.saved = "none"
    /\ stage[turn.session] = "project"

\* the texts the two transcribers return for a failed transcription
FailureTexts ==
    { <<"E","r","r","o","r"," ","p","r","o","c","e","s","s","i","n","g"," ",
        "a","u","d","i","o"," ","f","i","l","e",":"," ">>,
      <<"E","r","r","o","r",":"," ">> }

\* the latest call was made from the uploader or the microphone button
FromAudio == Called /\ turn.source \in {"file", "mic"}

\* C11: without speech recognition (SPEECH_RECOGNITION_AVAILABLE false)
\* process_request is never called from an audio path, neither for an
\* uploaded file nor for the microphone.
C11_NoAudioTurnWithoutRecognition ==
    ~SPEECH_RECOGNITION_AVAILABLE => ~FromAudio

\* C12: a failed transcription leaves the dialogue as it was: after the turn
\* the stage and the request are those from before it, in every stage, so the
\* failure text is in no field of the request.
C12_FailureLeavesDialogue ==
    (FromAudio /\ turn.text \in FailureTexts) =>
        /\ stage[turn.session] = turn.stage
        /\ request[turn.session] = turn.request
        /\ \A k \in DOMAIN request[turn.session] :
               request[turn.session][k] \notin {Lower(t) : t \in FailureTexts}

\* the latest call was a confirmation turn whose store write failed
WriteFailed ==
    /\ Called
    /\ turn.stage = "confirm"
    /\ SaysYes[turn.text]
    /\ turn.saved = "failed"

C13_Kept ==
    WriteFailed =>
        /\ stage[turn.session] = "confirm"
        /\ request[turn.session] = turn.request
        /\ DOMAIN request[turn.session] = FieldsAt("confirm")
        /\ store = turn.store
        /\ Added = << UserMessage >>

C13_Retry ==
    (WriteFailed /\ turn'.session = turn.session /\ SaysYes[turn'.text]
        /\ turn'.saved = "ok") =>
        /\ Len(store') = Len(store) + 1
        /\ LET row == store'[Len(store')]
           IN  /\ row.project_name = turn.request.project_name
               /\ row.project_number = turn.request.project_number
               /\ row.amount = turn.request.amount
               /\ row.currency = turn.request.currency
               /\ row.reason = turn.request.reason

\* C13: when the store write fails in a confirmation turn (an affirmative
\* utterance in stage confirm) the session is not reset: the stage stays
\* confirm, the request keeps all its fields and no success message is added
\* in that turn; an affirmative utterance that follows submits that same
\* request.
C13_FailedWriteKeepsRequest == []C13_Kept /\ [][C13_Retry]_vars

\* a submission that went through right after one that failed
C13_Witness ==
    /\ Submitted
    /\ Len(turn.messages) > 0
    /\ turn.messages[Len(turn.messages)].sender = "user"
    /\ SaysYes[turn.messages[Len(turn.messages)].text]
    /\ Len(store) = 1

\* the success message and the re-prompts of the four stages
KnownReplies ==
    { <<"Request submitted successfully!">>,
      <<"You can start a new request now.">>,
      <<"I couldn't detect a project number. Please mention it explicitly.">>,
      <<"Couldn't detect an amount. Please specify it.">>,
      <<"Please provide a more detailed reason for the expense.">>,
      <<"Please confirm with 'yes' or 'no'.">> }

\* C14: when the store write fails in a confirmation turn, an assistant
\* message that is neither the success message nor a re-prompt is added to
\* the transcript in that turn.
C14_FailureMessage ==
    WriteFailed =>
        \E i \in DOMAIN Added :
            /\ Added[i].sender = "assistant"
            /\ Added[i].text \notin KnownReplies

\* the content of a stored record, its id apart
Content(row) ==
    << row.project_name, row.project_number, row.amount, row.currency,
       row.reason, row.status >>

C15_Append ==
    \A s \in sessions :
        (turn' # turn /\ turn'.session = s /\ turn'.saved = "ok") =>
            /\ Len(store') = Len(store) + 1
            /\ SubSeq(store', 1, Len(store)) = store
            /\ Content(store'[Len(store')]) =
                   << Get(request[s], "project_name"),
                      Get(request[s], "project_number"),
                      Get(request[s], "amount"),
                      Get(request[s], "currency"),
                      Get(request[s], "reason"),
                      <<"P","e","n","d","i","n","g">> >>

C15_Kept ==
    /\ Len(store') >= Len(store)
    /\ SubSeq(store', 1, Len(store)) = store

C15_Separate ==
    \A i, j \in DOMAIN store : i # j => store[i].id # store[j].id

\* C15: the store neither merges nor rejects on content: every confirmed
\* dialogue appends a record of its own, whether or not a record of the same
\* field values is stored already and whichever session confirms, in any
\* interleaving of two sessions; the records stored before stay where they
\* are, unchanged.
C15_NoMergeOnContent ==
    [][C15_Append /\ C15_Kept]_vars /\ []C15_Separate

\* two records of the same content, the first written by session s1, which
\* was reset by it, and the second by session s2
C15_Witness ==
    /\ Submitted
    /\ turn.session = "s2"
    /\ messages["s1"] = <<>>
    /\ Len(store) = 2
    /\ Content(store[1]) = Content(store[2])

\* C16: at the end of a successful confirmation turn the transcript holds the
\* success message and, after it, the prompt for a new request, both from
\* the assistant.
C16_SuccessMessages ==
    Submitted =>
        \E i, j \in DOMAIN messages[turn.session] :
            /\ i < j
            /\ messages[turn.session][i] =
                   Assistant(<<"Request submitted successfully!">>)
            /\ messages[turn.session][j] =
                   Assistant(<<"You can start a new request now.">>)

\* C17: in every turn but a successful submission the transcript grows by
\* appending only: the transcript from before the turn is a prefix of the one
\* after it, the first message added is the user's utterance with sender
\* user and every message added after it has sender assistant; so across
\* stage changes and across a cancellation.
C17_TranscriptAppendOnly ==
    (Called /\ ~Submitted) =>
        /\ Len(messages[turn.session]) > Len(turn.messages)
        /\ SubSeq(messages[turn.session], 1, Len(turn.messages)) = turn.messages
        /\ Added[1] = UserMessage
        /\ \A i \in 2..Len(Added) : Added[i].sender = "assistant"

\* a cancellation with the whole dialogue before it still in the transcript
C17_Witness ==
    /\ Called
    /\ SaysNo[turn.text]
    /\ turn.stage = "confirm"
    /\ stage[turn.session] = "project"
    /\ Len(turn.messages) >= 9
    /\ Len(messages[turn.session]) = Len(turn.messages) + 2

\* The reading of C18.  A number token starts at a digit that no word
\* character precedes and is a run of digits with, if it follows, a point
\* and one or two digits; it ends where the text ends, where a character
\* that is no word character follows, or where a currency token follows at
\* once.  A currency token is one of the six words in any letter case with
\* no word character after it; it follows a number when nothing but white
\* space is between them.
CurrencyWords ==
    { <<"u","s","d">>, <<"e","u","r">>, <<"g","b","p">>,
      <<"d","o","l","l","a","r","s">>, <<"e","u","r","o","s">>,
      <<"p","o","u","n","d","s">> }

Delimited(t, k) == k > Len(t) \/ ~IsWord(t[k])

\* the ends (exclusive) of the currency tokens that start at k
CurrencyEnds(t, k) ==
    {e \in (k + 1)..(Len(t) + 1) :
        /\ Lower(SubSeq(t, k, e - 1)) \in CurrencyWords
        /\ Delimited(t, e)}

\* the ends (exclusive) of the number tokens that start at i
NumberEnds(t, i) ==
    IF ~(IsDigit(t[i]) /\ (i = 1 \/ ~IsWord(t[i - 1]))) THEN {}
    ELSE {e \in (i + 1)..(Len(t) + 1) :
            /\ \/ \A k \in i..(e - 1) : IsDigit(t[k])
               \/ \E p \in (i + 1)..(e - 2) :
                    /\ t[p] = "."
                    /\ e - 1 - p <= 2
                    /\ \A k \in (i..(e - 1)) \ {p} : IsDigit(t[k])
            /\ e > Len(t) \/ ~IsDigit(t[e])
            /\ Delimited(t, e) \/ CurrencyEnds(t, e) # {}}

NumberStarts(t) == {i \in 1..Len(t) : NumberEnds(t, i) # {}}

Max(S) == CHOOSE x \in S : \A y \in S : x >= y

\* the currency that goes with the number token that ends at e
CurrencyAfter(t, k) ==
    IF CurrencyEnds(t, k) = {} THEN <<"U","S","D">>
    ELSE SubSeq(t, k, Max(CurrencyEnds(t, k)) - 1)

CurrencyOfFirst(t, i) ==
    CurrencyAfter(t, RunEnd(t, Max(NumberEnds(t, i)), IsSpace))

\* C18: extract_amount returns (None, None) exactly when the text holds no
\* number token (integer or decimal); when it holds one, the currency
\* returned is the currency token that follows the first number, as written
\* in the text, whatever its letter case, and "USD" when none follows.  The
\* result is that of the text alone.
C18_ExtractAmount ==
    amount_found.amount # <<"not called">> =>
        /\ amount_found = extract_amount(amount_text)
        /\ amount_found.amount = None <=> NumberStarts(amount_text) = {}
        /\ amount_found.amount = None => amount_found.currency = None
        /\ amount_found.amount # None =>
               amount_found.currency =
                   CurrencyOfFirst(amount_text, Min(NumberStarts(amount_text)))

\* a decimal number with a currency word in mixed case after a space
C18_Witness ==
    /\ amount_text = <<"7",".","7"," ","P","o","u","n","d","s">>
    /\ amount_found = [amount |-> Float(770),
                       currency |-> <<"P","o","u","n","d","s">>]

\* C19: when stage reason accepts an utterance, the reason put into the
\* request is the utterance as the user gave it, character for character the
\* text of the user's message in the transcript, upper-case letters
\* included.
C19_ReasonVerbatim ==
    (Called /\ turn.stage = "reason" /\ stage[turn.session] = "confirm") =>
        /\ request[turn.session].reason = turn.text
        /\ request[turn.session].reason = Added[1].text

\* C20: every record in the store is complete: its project_name,
\* project_number, amount, currency and reason are all set (none is None),
\* after any sequence of typed and transcribed turns, absorbed turns,
\* re-prompts, cancellations and repeated submissions.
C20_RecordsComplete ==
    \A i \in DOMAIN store :
        /\ store[i].project_name # None
        /\ store[i].project_number # None
        /\ store[i].amount # None
        /\ store[i].currency # None
        /\ store[i].reason # None

\* two submissions, the reason of the first from an uploaded clip and that
\* of the second typed
C20_Witness ==
    /\ Len(store) = 2
    /\ store[1].reason = <<"f","i","x"," ","t","h","e"," ","r","o","o","f">>
    /\ store[2].reason = <<"l","a","b"," ","7"," ","r","o","o","f">>
    /\ store[2].amount = Float(700)

\* the run of main() going on in session s has called process_request: the
\* Submit button started it and it is past line 200, or it is past the
\* uploader with a clip in it
CalledInRun(s) ==
    \/ pc[s] = "audio" /\ button[s] = "Submit"
    \/ pc[s] = "mic" /\ audio_file[s] # None

C21_Step ==
    \A s \in sessions :
        (turn' # turn /\ turn'.session = s) =>
            /\ ~CalledInRun(s)
            /\ turn'.source = "file" => button[s] = ""

\* C21: each input is processed as one utterance: a run of main() calls
\* process_request at most once, and the transcription of the clip in the
\* uploader is not passed to it by a run that the Submit button or the
\* microphone button started.
C21_OneUtterancePerInput == [][C21_Step]_vars

====
